---- MODULE Spec2Model ----
(***************************************************************************)
(* Envelope layer of the dapts crate (src/dapts/src/lib.rs): the Request,  *)
(* Response and Event envelopes, their constructors, and the serde-derived *)
(* (de)serialization of the envelopes to and from the JSON wire object.    *)
(*                                                                         *)
(* A JSON wire object is a sequence of <<key, value>> members in the order *)
(* they appear on the wire; a serde_json::Value is a tagged record.        *)
(***************************************************************************)
EXTENDS Integers, Sequences, FiniteSets, TLC

\* ------------------------------------------------------------------ bounds
MaxSeq == 2
MaxSent == 2

Seqs == 0..MaxSeq

\* ------------------------------------------------- serde_json::Value trees
Null == [k |-> "null"]
NumV(n) == [k |-> "num", n |-> n]
StrV(s) == [k |-> "str", s |-> s]
BoolV(b) == [k |-> "bool", b |-> b]
ObjV(o) == [k |-> "obj", o |-> o]

\* Option<T>
None == [opt |-> "none"]
Some(x) == [opt |-> "some", v |-> x]

\* Result of serde_json::to_value
Ok(v) == [st |-> "ok", val |-> v]
Err == [st |-> "err"]
Panic == [st |-> "panic"]
Absent == [st |-> "none"]

\* ----------------------------------------------------- the crate's types
\* StoppedEventReason and its wire strings (types.rs; the test in lib.rs
\* pins Exception and FunctionBreakpoint).
StoppedEventReason ==
    {"Step", "Breakpoint", "Exception", "Pause", "Entry", "Goto",
     "FunctionBreakpoint", "DataBreakpoint", "InstructionBreakpoint"}

StoppedEventReason_serialize(r) ==
    CASE r = "Step" -> "step"
      [] r = "Breakpoint" -> "breakpoint"
      [] r = "Exception" -> "exception"
      [] r = "Pause" -> "pause"
      [] r = "Entry" -> "entry"
      [] r = "Goto" -> "goto"
      [] r = "FunctionBreakpoint" -> "function breakpoint"
      [] r = "DataBreakpoint" -> "data breakpoint"
      [] r = "InstructionBreakpoint" -> "instruction breakpoint"

StoppedEventReason_deserialize(s) ==
    CASE s = "step" -> Ok("Step")
      [] s = "breakpoint" -> Ok("Breakpoint")
      [] s = "exception" -> Ok("Exception")
      [] s = "pause" -> Ok("Pause")
      [] s = "entry" -> Ok("Entry")
      [] s = "goto" -> Ok("Goto")
      [] s = "function breakpoint" -> Ok("FunctionBreakpoint")
      [] s = "data breakpoint" -> Ok("DataBreakpoint")
      [] s = "instruction breakpoint" -> Ok("InstructionBreakpoint")
      [] OTHER -> Err

\* Message (types.rs): the structured error detail, a struct with an id and
\* a format string.
Messages == {[id |-> 1, format |-> "boom"], [id |-> 2, format |-> "busy"]}

Message_to_value(m) == ObjV([f \in {"id", "format"} |->
                              IF f = "id" THEN NumV(m.id) ELSE StrV(m.format)])

\* ------------------------------------------------- values a caller passes
\* Generic values used as payloads and as wire payloads.
Values ==
    {Null, NumV(7), BoolV(TRUE), ObjV("threadId" :> NumV(7)),
     ObjV("reason" :> StrV("later")),
     ObjV("error" :> Message_to_value([id |-> 1, format |-> "boom"]))}

\* Rust values handed to `impl serde::Serialize` parameters.
Unit == [t |-> "unit"]
NoneP == [t |-> "none"]
I64P(n) == [t |-> "i64", n |-> n]
StrP(s) == [t |-> "str", s |-> s]
ValueP(j) == [t |-> "value", j |-> j]
BadMapP == [t |-> "badmap"]
StoppedP(r) == [t |-> "stopped", reason |-> r]
SomeP(p) == [t |-> "some", p |-> p]
StructP(f, p) == [t |-> "struct", f |-> f, p |-> p]

BasePayloads ==
    {Unit, NoneP, I64P(7), StrP("a.out"), BadMapP}
      \cup {ValueP(j) : j \in Values}
      \cup {StoppedP(r) : r \in StoppedEventReason}

Payloads ==
    BasePayloads
      \cup {SomeP(p) : p \in {Unit, I64P(7), BadMapP}}
      \cup {StructP("program", p) : p \in {StrP("a.out"), NoneP, BadMapP}}

\* serde_json::to_value: the generic value of a Rust value, or an error for
\* a value with no generic representation (a map whose keys are not strings).
RECURSIVE to_value(_)
to_value(p) ==
    CASE p.t = "unit" -> Ok(Null)
      [] p.t = "none" -> Ok(Null)
      [] p.t = "i64" -> Ok(NumV(p.n))
      [] p.t = "str" -> Ok(StrV(p.s))
      [] p.t = "value" -> Ok(p.j)
      [] p.t = "badmap" -> Err
      [] p.t = "stopped" ->
           Ok(ObjV("reason" :> StrV(StoppedEventReason_serialize(p.reason))))
      [] p.t = "some" -> to_value(p.p)
      [] p.t = "struct" ->
           LET r == to_value(p.p)
           IN IF r.st = "ok" THEN Ok(ObjV(p.f :> r.val)) ELSE Err

\* Result::unwrap: the value, or a panic of the calling thread.
unwrap(r) == IF r.st = "ok" THEN r ELSE Panic

\* ------------------------------------------------------------ constructors
\* Request::new
Request_new(seq, command, arguments) ==
    LET a == unwrap(to_value(arguments))
    IN IF a.st = "panic" THEN Panic
       ELSE Ok([seq |-> seq, command |-> command, arguments |-> a.val])

\* Event::new
Event_new(seq, event, body) ==
    LET b == unwrap(to_value(body))
    IN IF b.st = "panic" THEN Panic
       ELSE Ok([seq |-> seq, event |-> event, body |-> b.val])

\* Response::new; body is an Option of a serializable value
Response_new(request_seq, success, message, body) ==
    LET b == IF body.opt = "none" THEN Ok(None)
             ELSE LET r == unwrap(to_value(body.v))
                  IN IF r.st = "panic" THEN Panic ELSE Ok(Some(r.val))
    IN IF b.st = "panic" THEN Panic
       ELSE Ok([request_seq |-> request_seq, success |-> success,
                message |-> message, body |-> b.val])

\* Response::success that also fills in a message
Response_success_msg(request_seq, body) ==
    LET b == unwrap(to_value(body))
    IN IF b.st = "panic" THEN Panic
       ELSE Ok([request_seq |-> request_seq, success |-> TRUE,
                message |-> Some("ok"), body |-> Some(b.val)])

\* Response::success
Response_success(request_seq, body) ==
    LET b == unwrap(to_value(body))
    IN IF b.st = "panic" THEN Panic
       ELSE Ok([request_seq |-> request_seq, success |-> TRUE,
                message |-> None, body |-> Some(b.val)])

\* Response::error that stores the detail without the wrapper struct
Response_error_flat(request_seq, message, detail) ==
    Ok([request_seq |-> request_seq, success |-> FALSE, message |-> message,
        body |-> IF detail.opt = "none" THEN None
                 ELSE Some(Message_to_value(detail.v))])

\* Response::error; detail is an Option<Message>, wrapped in the local
\* struct ErrorResponseBody { error }
Response_error(request_seq, message, detail) ==
    Ok([request_seq |-> request_seq, success |-> FALSE, message |-> message,
        body |-> IF detail.opt = "none" THEN None
                 ELSE Some(ObjV("error" :> Message_to_value(detail.v)))])

\* ------------------------------------------------- derived Serialize impls
is_null(v) == v.k = "null"

\* Request serialization without skip_serializing_if
RequestToWire_noskip(r) ==
    <<<<"seq", NumV(r.seq)>>, <<"command", StrV(r.command)>>,
      <<"arguments", r.arguments>>>>

RequestToWire(r) ==
    <<<<"seq", NumV(r.seq)>>, <<"command", StrV(r.command)>>>>
      \o (IF is_null(r.arguments) THEN <<>>
          ELSE <<<<"arguments", r.arguments>>>>)

EventToWire(e) ==
    <<<<"seq", NumV(e.seq)>>, <<"event", StrV(e.event)>>>>
      \o (IF is_null(e.body) THEN <<>> ELSE <<<<"body", e.body>>>>)

ResponseToWire(r) ==
    <<<<"request_seq", NumV(r.request_seq)>>, <<"success", BoolV(r.success)>>>>
      \o (IF r.message.opt = "none" THEN <<>>
          ELSE <<<<"message", StrV(r.message.v)>>>>)
      \o (IF r.body.opt = "none" THEN <<>> ELSE <<<<"body", r.body.v>>>>)

\* ----------------------------------------------- derived Deserialize impls
Count(w, key) == Cardinality({i \in DOMAIN w : w[i][1] = key})
Get(w, key) == w[CHOOSE i \in DOMAIN w : w[i][1] = key][2]
Keys(w) == {w[i][1] : i \in DOMAIN w}

\* A required field of the given kind: present once with a value of that kind.
HasField(w, key, k) == Count(w, key) = 1 /\ Get(w, key).k = k

\* Request deserialization that only accepts commands with a binding
RequestFromWire_bound(w) ==
    IF /\ HasField(w, "seq", "num")
       /\ HasField(w, "command", "str")
       /\ Get(w, "command").s \in {"launch"}
       /\ Count(w, "arguments") <= 1
    THEN Ok([seq |-> Get(w, "seq").n, command |-> Get(w, "command").s,
             arguments |-> IF Count(w, "arguments") = 0 THEN Null
                           ELSE Get(w, "arguments")])
    ELSE Err

RequestFromWire(w) ==
    IF /\ HasField(w, "seq", "num")
       /\ HasField(w, "command", "str")
       /\ Count(w, "arguments") <= 1
    THEN Ok([seq |-> Get(w, "seq").n, command |-> Get(w, "command").s,
             arguments |-> IF Count(w, "arguments") = 0 THEN Null
                           ELSE Get(w, "arguments")])
    ELSE Err

\* Event deserialization without serde(default): a missing body is an error
EventFromWire_nodefault(w) ==
    IF /\ HasField(w, "seq", "num")
       /\ HasField(w, "event", "str")
       /\ Count(w, "body") = 1
    THEN Ok([seq |-> Get(w, "seq").n, event |-> Get(w, "event").s,
             body |-> Get(w, "body")])
    ELSE Err

\* Event deserialization that leaves the body at its default
EventFromWire_nobody(w) ==
    IF /\ HasField(w, "seq", "num")
       /\ HasField(w, "event", "str")
       /\ Count(w, "body") <= 1
    THEN Ok([seq |-> Get(w, "seq").n, event |-> Get(w, "event").s,
             body |-> Null])
    ELSE Err

EventFromWire(w) ==
    IF /\ HasField(w, "seq", "num")
       /\ HasField(w, "event", "str")
       /\ Count(w, "body") <= 1
    THEN Ok([seq |-> Get(w, "seq").n, event |-> Get(w, "event").s,
             body |-> IF Count(w, "body") = 0 THEN Null ELSE Get(w, "body")])
    ELSE Err

\* Option fields: a missing key and an explicit null both give None.
ResponseFromWire(w) ==
    IF /\ HasField(w, "request_seq", "num")
       /\ HasField(w, "success", "bool")
       /\ Count(w, "message") <= 1
       /\ Count(w, "body") <= 1
       /\ (Count(w, "message") = 1 => Get(w, "message").k \in {"str", "null"})
    THEN Ok([request_seq |-> Get(w, "request_seq").n,
             success |-> Get(w, "success").b,
             message |-> IF Count(w, "message") = 0 THEN None
                         ELSE IF is_null(Get(w, "message")) THEN None
                         ELSE Some(Get(w, "message").s),
             body |-> IF Count(w, "body") = 0 THEN None
                      ELSE IF is_null(Get(w, "body")) THEN None
                      ELSE Some(Get(w, "body"))])
    ELSE Err

\* ------------------------------------------------------- payload bindings
\* IEvent::EVENT of the stopped event, and IRequest::COMMAND of launch.
StoppedEvent_EVENT == "stopped"
Launch_COMMAND == "launch"
BoundCommands == {Launch_COMMAND}
BoundEvents == {StoppedEvent_EVENT}

\* Deserializing the generic body into the Body type bound to `stopped`.
StoppedEventBody_from_value(v) ==
    IF v.k = "obj" /\ "reason" \in DOMAIN v.o /\ v.o["reason"].k = "str"
    THEN LET r == StoppedEventReason_deserialize(v.o["reason"].s)
         IN IF r.st = "ok" THEN Ok([reason |-> r.val]) ELSE Err
    ELSE Err

\* -------------------------------------------------------------- the state
\* inp    the arguments of the call under study, or the wire object received
\* sent   the seq of every Request and Event the sender has constructed
\* kind   the envelope type of the current exchange
\* src    the constructor that produced env, and the seq it was given
\* env    the constructor's outcome
\* wire   the serialized envelope, or the wire object received
\* back   the outcome of deserializing wire
\* fwd    back serialized again
\* typed  the outcome of binding back's body to the Body type of its event
VARIABLES inp, sent, kind, src, env, wire, back, fwd, typed
vars == <<inp, sent, kind, src, env, wire, back, fwd, typed>>

Commands == {Launch_COMMAND, "future_cmd"}
Events == {StoppedEvent_EVENT, "future_evt"}
ShortMessages == {None, Some("cancelled")}
OptPayloads == {None} \cup {Some(p) : p \in Payloads}
OptMessages == {None} \cup {Some(m) : m \in Messages}

\* Wire objects a peer can send: each member present, absent, ill-typed or
\* repeated, with an optional member the envelope does not know, in the
\* declared order or reversed.
Reverse(s) == [i \in 1..Len(s) |-> s[Len(s) + 1 - i]]
WirePayloads == {Null, NumV(7), ObjV("x" :> NumV(1)),
                 ObjV("reason" :> StrV("exception"))}
WireObjects(nameKey, names, payloadKey) ==
    LET seqPart == {<<>>, <<<<"seq", StrV("1")>>>>}
                     \cup {<<<<"seq", NumV(n)>>>> : n \in Seqs}
        namePart == {<<>>} \cup {<<<<nameKey, StrV(c)>>>> : c \in names}
        payPart == {<<>>, <<<<payloadKey, Null>>, <<payloadKey, NumV(7)>>>>}
                     \cup {<<<<payloadKey, v>>>> : v \in WirePayloads}
        extra == {<<>>, <<<<"type", StrV("x")>>>>}
        fwdSet == {a \o b \o c \o d :
                     a \in seqPart, b \in namePart, c \in payPart, d \in extra}
    IN fwdSet \cup {Reverse(w) : w \in fwdSet}

Inputs ==
    {[c |-> "payload", payload |-> p, command |-> n, event |-> e] :
        p \in Payloads, n \in Commands, e \in Events}
      \cup {[c |-> "response", success |-> s, message |-> m, body |-> b] :
              s \in BOOLEAN, m \in ShortMessages, b \in OptPayloads}
      \cup {[c |-> "error", message |-> m, detail |-> d] :
              m \in ShortMessages, d \in OptMessages}
      \cup {[c |-> "wire", kind |-> "request", w |-> w] :
              w \in WireObjects("command", Commands, "arguments")}
      \cup {[c |-> "wire", kind |-> "event", w |-> w] :
              w \in WireObjects("event", Events, "body")}

Init ==
    /\ inp \in Inputs
    /\ sent = <<>>
    /\ kind = "none"
    /\ src = [op |-> "none"]
    /\ env = Absent
    /\ wire = Absent
    /\ back = Absent
    /\ fwd = Absent
    /\ typed = Absent

Fresh == /\ wire' = Absent
         /\ back' = Absent
         /\ fwd' = Absent
         /\ typed' = Absent
         /\ UNCHANGED inp

\* A sender constructs a Request with a seq of its choosing.
RequestNew ==
    \E seq \in Seqs :
       /\ inp.c = "payload"
       /\ Len(sent) < MaxSent
       /\ kind' = "request"
       /\ src' = [op |-> "Request_new", seq |-> seq]
       /\ env' = Request_new(seq, inp.command, inp.payload)
       /\ sent' = IF env'.st = "ok" THEN Append(sent, seq) ELSE sent
       /\ Fresh

\* A sender constructs an Event with a seq of its choosing.
EventNew ==
    \E seq \in Seqs :
       /\ inp.c = "payload"
       /\ Len(sent) < MaxSent
       /\ kind' = "event"
       /\ src' = [op |-> "Event_new", seq |-> seq]
       /\ env' = Event_new(seq, inp.event, inp.payload)
       /\ sent' = IF env'.st = "ok" THEN Append(sent, seq) ELSE sent
       /\ Fresh

ResponseNew ==
    \E request_seq \in Seqs :
       /\ inp.c = "response"
       /\ kind' = "response"
       /\ src' = [op |-> "Response_new", seq |-> request_seq]
       /\ env' = Response_new(request_seq, inp.success, inp.message, inp.body)
       /\ Fresh
       /\ UNCHANGED sent

ResponseSuccess ==
    \E request_seq \in Seqs :
       /\ inp.c = "payload"
       /\ kind' = "response"
       /\ src' = [op |-> "Response_success", seq |-> request_seq]
       /\ env' = Response_success(request_seq, inp.payload)
       /\ Fresh
       /\ UNCHANGED sent

ResponseError ==
    \E request_seq \in Seqs :
       /\ inp.c = "error"
       /\ kind' = "response"
       /\ src' = [op |-> "Response_error", seq |-> request_seq]
       /\ env' = Response_error(request_seq, inp.message, inp.detail)
       /\ Fresh
       /\ UNCHANGED sent

\* serde_json serialization of the constructed envelope.
Serialize ==
    /\ env.st = "ok"
    /\ wire.st = "none"
    /\ wire' = Ok(CASE kind = "request" -> RequestToWire(env.val)
                    [] kind = "event" -> EventToWire(env.val)
                    [] kind = "response" -> ResponseToWire(env.val))
    /\ UNCHANGED <<inp, sent, kind, src, env, back, fwd, typed>>

\* A wire object arrives from the peer.
Receive ==
    /\ inp.c = "wire"
    /\ wire.st = "none"
    /\ kind' = inp.kind
    /\ src' = [op |-> "receive"]
    /\ wire' = Ok(inp.w)
    /\ UNCHANGED <<inp, sent, env, back, fwd, typed>>

\* serde_json deserialization of the wire object into the envelope.
Deserialize ==
    /\ wire.st = "ok"
    /\ back.st = "none"
    /\ back' = CASE kind = "request" -> RequestFromWire(wire.val)
                 [] kind = "event" -> EventFromWire(wire.val)
                 [] kind = "response" -> ResponseFromWire(wire.val)
    /\ UNCHANGED <<inp, sent, kind, src, env, wire, fwd, typed>>

\* The parsed envelope is serialized again to be forwarded.
Forward ==
    /\ back.st = "ok"
    /\ fwd.st = "none"
    /\ fwd' = Ok(CASE kind = "request" -> RequestToWire(back.val)
                   [] kind = "event" -> EventToWire(back.val)
                   [] kind = "response" -> ResponseToWire(back.val))
    /\ UNCHANGED <<inp, sent, kind, src, env, wire, back, typed>>

\* Typed extraction of a parsed Event's body through the binding of its name.
Bind ==
    /\ back.st = "ok"
    /\ kind = "event"
    /\ typed.st = "none"
    /\ typed' = IF back.val.event = StoppedEvent_EVENT
                THEN StoppedEventBody_from_value(back.val.body)
                ELSE [st |-> "unknown"]
    /\ UNCHANGED <<inp, sent, kind, src, env, wire, back, fwd>>

Next ==
    \/ RequestNew
    \/ EventNew
    \/ ResponseNew
    \/ ResponseSuccess
    \/ ResponseError
    \/ Serialize
    \/ Receive
    \/ Deserialize
    \/ Forward
    \/ Bind

Spec == Init /\ [][Next]_vars

\* ================================================================ properties
Constructors == {"Request_new", "Event_new", "Response_new",
                 "Response_success", "Response_error"}

\* The payload handed to the constructor that produced env, if any.
PayloadGiven ==
    IF inp.c = "payload" THEN Some(inp.payload)
    ELSE IF inp.c = "response" THEN inp.body
    ELSE None

\* The name and payload keys of the current envelope kind.
NameKey == IF kind = "request" THEN "command" ELSE "event"
PayloadKey == IF kind = "request" THEN "arguments" ELSE "body"
NameOf(e) == IF kind = "request" THEN e.command ELSE e.event
PayloadOf(e) == IF kind = "request" THEN e.arguments ELSE e.body
FromWire(w) == IF kind = "request" THEN RequestFromWire(w) ELSE EventFromWire(w)
\* The payload a wire object carries: the member's value, null when omitted.
WirePayload(w) == IF Count(w, PayloadKey) = 0 THEN Null ELSE Get(w, PayloadKey)

\* C1: Response::success(N, body) returns request_seq = N, success = true,
\* no message and the serialized body; its wire form has exactly the keys
\* request_seq, success and body (no message key).
C1_SuccessResponse ==
    (src.op = "Response_success" /\ to_value(inp.payload).st = "ok") =>
       /\ env.st = "ok"
       /\ env.val.request_seq = src.seq
       /\ env.val.success = TRUE
       /\ env.val.message.opt = "none"
       /\ env.val.body.opt = "some"
       /\ env.val.body.v = to_value(inp.payload).val
       /\ wire.st = "ok" =>
            /\ Len(wire.val) = 3
            /\ Keys(wire.val) = {"request_seq", "success", "body"}
            /\ Get(wire.val, "request_seq") = NumV(src.seq)
            /\ Get(wire.val, "success") = BoolV(TRUE)
            /\ Get(wire.val, "body") = to_value(inp.payload).val

C1_Witness ==
    /\ src.op = "Response_success"
    /\ src.seq = 1
    /\ inp.payload = ValueP(ObjV("threadId" :> NumV(7)))
    /\ wire.st = "ok"

\* C2: Response::error(N, message, detail) returns request_seq = N,
\* success = false and the given message; a present detail gives the body
\* {"error": detail} with the single key error, an absent detail gives no
\* body and no body key on the wire.
C2_ErrorResponse ==
    src.op = "Response_error" =>
       /\ env.st = "ok"
       /\ env.val.request_seq = src.seq
       /\ env.val.success = FALSE
       /\ env.val.message = inp.message
       /\ inp.detail.opt = "some" =>
            /\ env.val.body.opt = "some"
            /\ env.val.body.v.k = "obj"
            /\ DOMAIN env.val.body.v.o = {"error"}
            /\ env.val.body.v.o["error"] = Message_to_value(inp.detail.v)
            /\ wire.st = "ok" => /\ Count(wire.val, "body") = 1
                                 /\ Get(wire.val, "body") = env.val.body.v
       /\ inp.detail.opt = "none" =>
            /\ env.val.body.opt = "none"
            /\ wire.st = "ok" => "body" \notin Keys(wire.val)
       /\ (wire.st = "ok" /\ inp.detail.opt = "none"
             /\ inp.message.opt = "some") =>
            wire.val = <<<<"request_seq", NumV(src.seq)>>,
                         <<"success", BoolV(FALSE)>>,
                         <<"message", StrV(inp.message.v)>>>>

C2_Witness ==
    /\ src.op = "Response_error"
    /\ inp.detail.opt = "some"
    /\ inp.message = Some("cancelled")
    /\ wire.st = "ok"

\* C3: a Request (Event) whose arguments (body) are null serializes with no
\* arguments (body) key, never the key with an explicit null; a non-null
\* payload serializes with the key present once, carrying that value.
C3_NullPayloadOmitted ==
    (src.op \in {"Request_new", "Event_new"} /\ wire.st = "ok") =>
       /\ is_null(PayloadOf(env.val)) => PayloadKey \notin Keys(wire.val)
       /\ ~is_null(PayloadOf(env.val)) =>
            /\ Count(wire.val, PayloadKey) = 1
            /\ Get(wire.val, PayloadKey) = PayloadOf(env.val)
       /\ \A i \in DOMAIN wire.val : ~is_null(wire.val[i][2])

C3_Witness ==
    /\ src.op = "Request_new"
    /\ inp.payload = NoneP
    /\ wire.st = "ok"

\* C4: no Response built by Response::new, Response::success or
\* Response::error serializes a message or body key with an explicit null.
C4_ResponseNeverNull ==
    (kind = "response" /\ src.op \in Constructors /\ wire.st = "ok") =>
       \A i \in DOMAIN wire.val :
          wire.val[i][1] \in {"message", "body"} => ~is_null(wire.val[i][2])

\* C5: deserializing the serialized form of a Request built by Request::new
\* or an Event built by Event::new yields an envelope equal to the original
\* in seq, name and payload.
C5_RoundTrip ==
    (src.op \in {"Request_new", "Event_new"} /\ env.st = "ok"
       /\ back.st # "none") =>
       /\ back.st = "ok"
       /\ back.val.seq = env.val.seq
       /\ NameOf(back.val) = NameOf(env.val)
       /\ PayloadOf(back.val) = PayloadOf(env.val)
       /\ back.val.seq = src.seq
       /\ NameOf(back.val) = (IF kind = "request" THEN inp.command
                              ELSE inp.event)
       /\ PayloadOf(back.val) = to_value(inp.payload).val

C5_Witness ==
    /\ src.op = "Event_new"
    /\ back.st = "ok"
    /\ is_null(env.val.body)

\* A received wire object that is an envelope: seq and name present once
\* with the right JSON type, the payload member present at most once.
IsEnvelope(w) ==
    /\ Count(w, "seq") = 1
    /\ Get(w, "seq").k = "num"
    /\ Count(w, NameKey) = 1
    /\ Get(w, NameKey).k = "str"
    /\ Count(w, PayloadKey) <= 1

\* C6: parsing a received Request or Event envelope whose name has no
\* binding succeeds; the parsed envelope has the wire's seq, name and
\* payload, and serializing it again reproduces the same seq, name and
\* payload (the same wire object when the received one has only the
\* envelope's members in declared order and no explicit null payload).
C6_UnknownNameForwarded ==
    (src.op = "receive" /\ IsEnvelope(wire.val)
       /\ Get(wire.val, NameKey).s \notin (BoundCommands \cup BoundEvents)) =>
       /\ back.st # "none" =>
            /\ back.st = "ok"
            /\ back.val.seq = Get(wire.val, "seq").n
            /\ NameOf(back.val) = Get(wire.val, NameKey).s
            /\ PayloadOf(back.val) = WirePayload(wire.val)
       /\ fwd.st = "ok" =>
            /\ Get(fwd.val, "seq") = Get(wire.val, "seq")
            /\ Get(fwd.val, NameKey) = Get(wire.val, NameKey)
            /\ WirePayload(fwd.val) = WirePayload(wire.val)
            /\ FromWire(fwd.val) = back
            /\ (/\ Keys(wire.val) \subseteq {"seq", NameKey, PayloadKey}
                /\ wire.val[1][1] = "seq"
                /\ wire.val[2][1] = NameKey
                /\ ~(Count(wire.val, PayloadKey) = 1
                       /\ is_null(Get(wire.val, PayloadKey))))
               => fwd.val = wire.val

C6_Witness ==
    /\ src.op = "receive"
    /\ kind = "request"
    /\ fwd.st = "ok"
    /\ back.val.command = "future_cmd"
    /\ back.val.arguments = ObjV("x" :> NumV(1))
    /\ back.val.seq = 2

\* C7: a constructor given a payload with no generic representation fails
\* with a SerializationError returned to the caller as an error outcome.
C7_SerializationErrorReturned ==
    (src.op \in Constructors /\ PayloadGiven.opt = "some"
       /\ to_value(PayloadGiven.v).st = "err") => env.st = "err"

\* C8: every Response the constructors produce with success = false and a
\* body present has a body of the form {"error": detail}.
C8_FailureBodyIsErrorWrapper ==
    (kind = "response" /\ src.op \in Constructors /\ env.st = "ok"
       /\ ~env.val.success /\ env.val.body.opt = "some") =>
       /\ env.val.body.v.k = "obj"
       /\ DOMAIN env.val.body.v.o = {"error"}

\* C9: the seq values of the Requests and Events one sender constructs are
\* strictly increasing in construction order and start at 1.
C9_SeqIncreasingFromOne ==
    /\ Len(sent) > 0 => sent[1] = 1
    /\ \A i, j \in DOMAIN sent : i < j => sent[i] < sent[j]

====
